---- MODULE Spec2Model ----
(***************************************************************************)
(* Model of approval-gate/app.py: the TOTP approval gate.                  *)
(*                                                                         *)
(* One poller thread (poller_loop) and a pool of HTTP request threads      *)
(* (approve) share the in-memory dict pending_updates, guarded by          *)
(* state_lock, and the state file holding the known digests, which is not  *)
(* guarded by any lock.  Every action below is one step that the code      *)
(* executes without another thread being able to observe an intermediate   *)
(* state: a `with state_lock:` block, one read or one write of the state   *)
(* file, or thread-local computation attached to such a step.              *)
(***************************************************************************)
EXTENDS Integers, Sequences, FiniteSets, TLC

(* ---------------------------- bounds ----------------------------------- *)
MaxTime == 3        \* the clock runs over 0..MaxTime
MaxTokens == 2      \* number of tokens token_urlsafe hands out
MaxReqs == 2        \* number of HTTP requests to /approve/<token>
MaxDigest == 2      \* number of versions a monitored image goes through

(* --------------------- configuration and inputs ------------------------ *)
\* CONFIG["APPROVAL_TIMEOUT"], in clock units
APPROVAL_TIMEOUT == 1
\* CONFIG["POLL_INTERVAL"], in clock units
POLL_INTERVAL == 1

\* the content of IMAGES_FILE, as load_images returns it
Images ==
  << [image |-> "ghcr.io/o/a:latest", container |-> "a", app_dir |-> ""],
     [image |-> "ghcr.io/o/b:latest", container |-> "b", app_dir |-> "/apps/b"] >>

ImageNames == { Images[k].image : k \in 1..Len(Images) }

\* the digests a registry can answer with, in the order they are published
DigestSeq == << "sha256:aaa", "sha256:bbb", "sha256:ccc", "sha256:ddd" >>

\* Python's None, for a digest and for app_dir
None == "None"

\* the one-time codes a request can carry: the code the authenticator shows,
\* and another one
GoodCode == "good"
BadCode == "bad"
Codes == { GoodCode, BadCode }

Tokens == 1..MaxTokens
Reqs == 1..MaxReqs

\* `update` of approve when pending_updates.get(token) returned None
NoUpdate ==
  [image |-> "", container |-> "", app_dir |-> "", old_digest |-> "",
   new_digest |-> "", detected_at |-> 0, token |-> 0]

\* state = {"digests": {}}: load_state when the state file does not exist
EmptyDigests == [i \in ImageNames |-> None]

VARIABLES
  TOTP_SECRET,  \* CONFIG["TOTP_SECRET"]: "" when the environment sets none
  main,         \* main(): "start", then "running" or "refused"
  now,          \* datetime.now()
  remote,       \* image -> index in DigestSeq of the digest GHCR serves
  state_file,   \* content of STATE_FILE: state["digests"], image -> digest
  pending_updates, \* token -> PendingUpdate
  nextToken,    \* the next token secrets.token_urlsafe returns
  poller,       \* the poller thread: pc and locals of check_for_updates
  req,          \* the request threads: pc and locals of approve
  executions,   \* the pull_and_restart threads started, in order
  notified,     \* calls of send_notification, in order: the tokens
  created,      \* what was ever inserted: token -> Offer of the PendingUpdate
  swept         \* tokens removed by cleanup_expired

vars == << TOTP_SECRET, main, now, remote, state_file, pending_updates, nextToken, poller, req,
           executions, notified, created, swept >>

(* ------------------------- pure helpers -------------------------------- *)

\* dict: d[k] = v
DictSet(d, k, v) == [x \in DOMAIN d \cup {k} |-> IF x = k THEN v ELSE d[x]]

\* as dict.pop(k, None) would behave: a missing key raises nothing
KeyErrorNever(d, k) == FALSE

\* `del d[k]` raises KeyError
KeyError(d, k) == k \notin DOMAIN d

\* dict: del d[k], for k in d
DictDel(d, k) == [x \in DOMAIN d \ {k} |-> d[x]]

\* pending_updates.get(token)
PendingGet(p, token) == IF token \in DOMAIN p THEN p[token] ELSE NoUpdate

\* state["digests"].get(image)
DigestsGet(digests, image) == digests[image]

\* a check that accepts any code
TotpVerifyAny(code) == TRUE

\* totp.verify(code, valid_window=1)
TotpVerify(code) == code = GoodCode

\* the comparison made against u.old_digest instead of u.new_digest
already_pending_old(p, image, current_digest) ==
  \E t \in DOMAIN p : p[t].image = image /\ p[t].old_digest = current_digest

\* any(u.image == image and u.new_digest == current_digest for u in ...)
already_pending(p, image, current_digest) ==
  \E t \in DOMAIN p : p[t].image = image /\ p[t].new_digest = current_digest

\* known_digest or "unknown"
OrUnknown(known_digest) == IF known_digest = None THEN "unknown" ELSE known_digest

\* old_digest and new_digest taken from the wrong variables
MakeUpdateSwapped(entry, known_digest, current_digest, at, token) ==
  [image |-> entry.image, container |-> entry.container,
   app_dir |-> entry.app_dir, old_digest |-> current_digest,
   new_digest |-> OrUnknown(known_digest), detected_at |-> at, token |-> token]

\* the PendingUpdate check_for_updates builds
MakeUpdate(entry, known_digest, current_digest, at, token) ==
  [image |-> entry.image, container |-> entry.container,
   app_dir |-> entry.app_dir, old_digest |-> OrUnknown(known_digest),
   new_digest |-> current_digest, detected_at |-> at, token |-> token]

\* the subtraction the wrong way round: update.detected_at - now > timeout
expired_reversed(p, at) == { t \in DOMAIN p : p[t].detected_at - at > APPROVAL_TIMEOUT }

\* an entry is overdue as soon as its age reaches the timeout
expired_ge(p, at) == { t \in DOMAIN p : at - p[t].detected_at >= APPROVAL_TIMEOUT }

\* the list `expired` of cleanup_expired
expired(p, at) == { t \in DOMAIN p : at - p[t].detected_at > APPROVAL_TIMEOUT }

\* pending_updates after the `for token in expired: del` loop
Sweep(p, at) == [t \in DOMAIN p \ expired(p, at) |-> p[t]]

\* args of the pull_and_restart thread: update.app_dir or None
ExecArgs(update) ==
  [image |-> update.image, container |-> update.container,
   app_dir |-> IF update.app_dir = "" THEN None ELSE update.app_dir,
   token |-> update.token]

\* what an inserted PendingUpdate offered, kept after the entry is gone
Offer(update) ==
  [image |-> update.image, container |-> update.container,
   app_dir |-> update.app_dir, new_digest |-> update.new_digest]

(* ----------------------------- Init ------------------------------------ *)

IdlePoller ==
  [pc |-> "load", state |-> EmptyDigests, idx |-> 1, current_digest |-> None,
   update |-> NoUpdate, delivered |-> TRUE, wake |-> 0, caught |-> FALSE]

IdleReq ==
  [pc |-> "idle", token |-> 0, method |-> "", code |-> "",
   update |-> NoUpdate, state |-> EmptyDigests, result |-> "none",
   late |-> FALSE]

Init ==
  /\ TOTP_SECRET \in {"", "JBSWY3DPEHPK3PXP"}
  /\ main = "start"
  /\ now = 0
  /\ remote = [i \in ImageNames |-> 1]
  /\ state_file = EmptyDigests
  /\ pending_updates = << >>
  /\ nextToken = 1
  /\ poller = IdlePoller
  /\ req = [r \in Reqs |-> IdleReq]
  /\ executions = << >>
  /\ notified = << >>
  /\ created = << >>
  /\ swept = {}

(* ------------------------------ main ----------------------------------- *)

\* a CONFIG that passes for one without secret
SecretMissingNever(secret) == FALSE

\* `if not CONFIG["TOTP_SECRET"]`
SecretMissing(secret) == secret = ""

\* main(): without a secret it logs an error and returns; otherwise it
\* starts the poller thread and the HTTP server
Main ==
  /\ main = "start"
  /\ main' = IF SecretMissing(TOTP_SECRET) THEN "refused" ELSE "running"
  /\ UNCHANGED << TOTP_SECRET, now, remote, state_file, pending_updates,
                  nextToken, poller, req, executions, notified, created, swept >>

\* the poller thread and the HTTP server are up
Running == main = "running"

(* ------------------------- environment --------------------------------- *)

\* time passes
Tick ==
  /\ now < MaxTime
  /\ now' = now + 1
  /\ UNCHANGED << TOTP_SECRET, main, remote, state_file, pending_updates,
                  nextToken, poller, req, executions, notified, created, swept >>

\* a new version of image i is pushed to the registry
Publish(i) ==
  /\ remote[i] < MaxDigest
  /\ remote' = [remote EXCEPT ![i] = @ + 1]
  /\ UNCHANGED << TOTP_SECRET, main, now, state_file, pending_updates,
                  nextToken, poller, req, executions, notified, created, swept >>

(* --------------------------- the poller -------------------------------- *)

PollerFrame ==
  UNCHANGED << TOTP_SECRET, main, now, remote, state_file, req, executions >>

\* check_for_updates: state = load_state(); images = load_images()
PollLoad ==
  /\ Running
  /\ poller.pc = "load"
  /\ poller' = [poller EXCEPT !.pc = "fetch", !.state = state_file, !.idx = 1,
                              !.current_digest = None, !.update = NoUpdate,
                              !.caught = FALSE]
  /\ PollerFrame
  /\ UNCHANGED << pending_updates, nextToken, notified, created, swept >>

\* get_remote_digest raising, which poller_loop would catch: the cycle is over
AfterFetchFailedAbort(p) ==
  [p EXCEPT !.pc = "sleep", !.current_digest = None]

\* `if not current_digest: continue`
AfterFetchFailed(p) == [p EXCEPT !.idx = @ + 1, !.current_digest = None]

\* one iteration of `for entry in images` up to the comparison of the
\* digests: get_remote_digest answers the served digest or None; after the
\* last entry check_for_updates returns
PollFetch ==
  /\ Running
  /\ poller.pc = "fetch"
  /\ IF poller.idx > Len(Images)
       THEN poller' = [poller EXCEPT !.pc = "cleanup", !.current_digest = None]
       ELSE LET entry == Images[poller.idx] IN
            IF entry.image = "" \/ entry.container = ""
              THEN poller' = [poller EXCEPT !.idx = @ + 1]
              ELSE \E current_digest \in {None, DigestSeq[remote[entry.image]]} :
                     IF current_digest = None
                       THEN poller' = AfterFetchFailed(poller)
                       ELSE IF DigestsGet(poller.state, entry.image) /= current_digest
                              THEN poller' = [poller EXCEPT !.pc = "check",
                                                !.current_digest = current_digest]
                              ELSE poller' = [poller EXCEPT !.idx = @ + 1,
                                                !.current_digest = current_digest]
  /\ PollerFrame
  /\ UNCHANGED << pending_updates, nextToken, notified, created, swept >>

\* with state_lock: already_pending = any(...); if already_pending: continue
PollCheck ==
  /\ Running
  /\ poller.pc = "check"
  /\ IF already_pending(pending_updates, Images[poller.idx].image,
                        poller.current_digest)
       THEN poller' = [poller EXCEPT !.pc = "fetch", !.idx = @ + 1]
       ELSE poller' = [poller EXCEPT !.pc = "insert"]
  /\ PollerFrame
  /\ UNCHANGED << pending_updates, nextToken, notified, created, swept >>

\* a generator that hands out one value again and again
token_fixed(n) == 1

\* secrets.token_urlsafe(32), the n-th call: 32 bytes from the system's
\* random source, taken as a value that no earlier call returned
token_urlsafe(n) == n

\* token = secrets.token_urlsafe(32); update = PendingUpdate(...);
\* with state_lock: pending_updates[token] = update
PollInsert ==
  /\ Running
  /\ poller.pc = "insert"
  /\ nextToken <= MaxTokens
  /\ LET entry == Images[poller.idx]
         token == token_urlsafe(nextToken)
         update == MakeUpdate(entry, DigestsGet(poller.state, entry.image),
                              poller.current_digest, now, token)
     IN /\ pending_updates' = DictSet(pending_updates, token, update)
        /\ created' = DictSet(created, token, Offer(update))
        /\ poller' = [poller EXCEPT !.pc = "notify", !.update = update]
  /\ nextToken' = nextToken + 1
  /\ PollerFrame
  /\ UNCHANGED << notified, swept >>

\* an entry that could not be notified is taken back
AfterNotifyRollback(p, token, ok) ==
  IF ok THEN p ELSE [t \in DOMAIN p \ {token} |-> p[t]]

\* the registry after `send_notification(update)`, whose value is dropped
AfterNotify(p, token, ok) == p

\* send_notification(update): True or False, never an exception; the caller
\* drops the value (poller.delivered keeps the latest one for inspection)
PollNotify ==
  /\ Running
  /\ poller.pc = "notify"
  /\ notified' = Append(notified, poller.update.token)
  /\ \E ok \in BOOLEAN :
       /\ poller' = [poller EXCEPT !.pc = "fetch", !.idx = @ + 1,
                                   !.update = NoUpdate, !.delivered = ok]
       /\ pending_updates' = AfterNotify(pending_updates, poller.update.token, ok)
  /\ PollerFrame
  /\ UNCHANGED << nextToken, created, swept >>

\* cleanup_expired()
PollCleanup ==
  /\ Running
  /\ poller.pc = "cleanup"
  /\ pending_updates' = Sweep(pending_updates, now)
  /\ swept' = swept \cup expired(pending_updates, now)
  /\ poller' = [poller EXCEPT !.pc = "sleep", !.wake = now + POLL_INTERVAL]
  /\ PollerFrame
  /\ UNCHANGED << nextToken, notified, created >>

\* an exception that escapes poller_loop and ends the thread
AfterPollerErrorDies(p, at) == [p EXCEPT !.pc = "dead"]

\* `except Exception as e: log.exception(...)`, then time.sleep
AfterPollerError(p, at) ==
  [p EXCEPT !.pc = "sleep", !.wake = at + POLL_INTERVAL, !.caught = TRUE]

\* load_state() or load_images() raises (a state or images file that
\* json.loads rejects or that cannot be read): poller_loop catches it
PollFault ==
  /\ Running
  /\ poller.pc = "load"
  /\ poller' = AfterPollerError(poller, now)
  /\ PollerFrame
  /\ UNCHANGED << pending_updates, nextToken, notified, created, swept >>

\* time.sleep(CONFIG["POLL_INTERVAL"]) returns
PollWake ==
  /\ Running
  /\ poller.pc = "sleep"
  /\ now >= poller.wake
  /\ poller' = [poller EXCEPT !.pc = "load", !.wake = 0]
  /\ PollerFrame
  /\ UNCHANGED << pending_updates, nextToken, notified, created, swept >>

(* ------------------------ the request threads -------------------------- *)

ReqFrame ==
  UNCHANGED << TOTP_SECRET, main, now, remote, poller, nextToken, notified,
               created, swept >>

\* the request is over: its locals are dropped; what is kept is the token it
\* asked for, the inputs the handler read (request.method once the entry was
\* found, the code of a POST), the response, and of a success whether the
\* entry was already overdue when the request arrived
Respond(r, token, method, code, result, late) ==
  [req EXCEPT ![r] = [IdleReq EXCEPT !.pc = "done", !.token = token,
                                     !.method = method, !.code = code,
                                     !.result = result, !.late = late]]

\* a wrong code burning the token
AfterInvalidBurn(p, token) == [t \in DOMAIN p \ {token} |-> p[t]]

\* the else branch of `if totp.verify(...)`: error = "Invalid code. ..."; the
\* entry is left where it is
AfterInvalid(p, token) == p

\* a not-found page that tells a token that once existed from one that never did
NotFoundLeaks(r, token) ==
  Respond(r, token, "", "", IF token \in DOMAIN created THEN "gone" ELSE "notfound",
          FALSE)

\* `if not update: return render_template_string(APPROVAL_PAGE,
\* not_found=True), 404`, before request.method or the form is read
NotFound(r, token) == Respond(r, token, "", "", "notfound", FALSE)

\* approve(token) up to the TOTP check: the lookup under state_lock, the
\* not-found page, the page of a GET, the rejection of a wrong code
ApproveLookup(r, method, token, code) ==
  /\ Running
  /\ req[r].pc = "idle"
  /\ \A q \in Reqs : q < r => req[q].pc /= "idle"
  /\ LET update == PendingGet(pending_updates, token)
     IN IF update = NoUpdate
          THEN /\ req' = NotFound(r, token)
               /\ UNCHANGED pending_updates
          ELSE IF method /= "POST"
                 THEN /\ req' = Respond(r, token, method, "", "page", FALSE)
                      /\ UNCHANGED pending_updates
                 ELSE IF TotpVerify(code)
                        THEN /\ req' = [req EXCEPT ![r].pc = "load",
                                          ![r].token = token,
                                          ![r].method = method,
                                          ![r].code = code,
                                          ![r].update = update,
                                          ![r].late = now - update.detected_at > APPROVAL_TIMEOUT]
                             /\ UNCHANGED pending_updates
                        ELSE /\ req' = Respond(r, token, method, code, "invalid", FALSE)
                             /\ pending_updates' = AfterInvalid(pending_updates, token)
  /\ ReqFrame
  /\ UNCHANGED << state_file, executions >>

\* state = load_state()
ApproveLoad(r) ==
  /\ Running
  /\ req[r].pc = "load"
  /\ req' = [req EXCEPT ![r].pc = "save", ![r].state = state_file]
  /\ ReqFrame
  /\ UNCHANGED << state_file, pending_updates, executions >>

\* state["digests"][update.image] = update.new_digest; save_state(state)
ApproveSave(r) ==
  /\ Running
  /\ req[r].pc = "save"
  /\ state_file' = DictSet(req[r].state, req[r].update.image, req[r].update.new_digest)
  /\ req' = [req EXCEPT ![r].pc = "del"]
  /\ ReqFrame
  /\ UNCHANGED << pending_updates, executions >>

\* with state_lock: del pending_updates[token], which raises KeyError when
\* the token is gone (the request then ends in an internal server error);
\* otherwise threading.Thread(target=pull_and_restart, ...).start(),
\* success = True and the success page
ApproveDel(r) ==
  /\ Running
  /\ req[r].pc = "del"
  /\ IF KeyError(pending_updates, req[r].token)
       THEN /\ req' = Respond(r, req[r].token, req[r].method, req[r].code,
                            "error500", FALSE)
            /\ UNCHANGED << pending_updates, executions >>
       ELSE /\ pending_updates' = DictDel(pending_updates, req[r].token)
            /\ executions' = Append(executions, ExecArgs(req[r].update))
            /\ req' = Respond(r, req[r].token, req[r].method, req[r].code,
                            "success", req[r].late)
  /\ ReqFrame
  /\ UNCHANGED state_file

Next ==
  \/ Main
  \/ Tick
  \/ \E i \in ImageNames : Publish(i)
  \/ PollLoad
  \/ PollFetch
  \/ PollCheck
  \/ PollInsert
  \/ PollNotify
  \/ PollCleanup
  \/ PollWake
  \/ PollFault
  \/ \E r \in Reqs, method \in {"GET", "POST"}, token \in Tokens, code \in Codes :
       ApproveLookup(r, method, token, code)
  \/ \E r \in Reqs : ApproveLoad(r)
  \/ \E r \in Reqs : ApproveSave(r)
  \/ \E r \in Reqs : ApproveDel(r)

Spec == Init /\ [][Next]_vars

\* the steps of the poller thread that an exception does not cut short
PollerStep ==
  PollLoad \/ PollFetch \/ PollCheck \/ PollInsert \/ PollNotify
    \/ PollCleanup \/ PollWake

\* the gate with no request under way
NextPoller ==
  \/ Main
  \/ Tick
  \/ \E i \in ImageNames : Publish(i)
  \/ PollerStep
  \/ PollFault

\* main runs, the clock advances and the poller thread is scheduled
SpecPoller ==
  Init /\ [][NextPoller]_vars
       /\ WF_vars(Main) /\ WF_vars(Tick) /\ WF_vars(PollerStep)

\* a time stamp seen one tick later from the end of the clock's range: the
\* code compares differences of datetime.now() only, and a stamp already
\* MaxTime back stays there (its age is beyond the timeout either way)
Earlier(at) == IF at > 0 THEN at - 1 ELSE 0

\* the clock advances past MaxTime: the window of the clock moves on by one
\* tick, every stamp the program holds is one tick older
TickOn ==
  /\ now = MaxTime
  /\ pending_updates' =
       [t \in DOMAIN pending_updates |->
          [pending_updates[t] EXCEPT !.detected_at = Earlier(@)]]
  /\ poller' = [poller EXCEPT !.wake = Earlier(@),
                              !.update.detected_at = Earlier(@)]
  /\ req' = [r \in Reqs |-> [req[r] EXCEPT !.update.detected_at = Earlier(@)]]
  /\ UNCHANGED << TOTP_SECRET, main, now, remote, state_file, nextToken,
                  executions, notified, created, swept >>

\* the gate with no request under way and a clock that never stops
NextSweep ==
  \/ Main
  \/ Tick
  \/ TickOn
  \/ \E i \in ImageNames : Publish(i)
  \/ PollerStep
  \/ PollFault

\* main runs, the clock advances for ever and the poller thread is scheduled;
\* nothing obliges load_state and load_images to succeed
SpecSweep ==
  Init /\ [][NextSweep]_vars
       /\ WF_vars(Main) /\ WF_vars(Tick \/ TickOn) /\ WF_vars(PollerStep)

(* ======================= the claims ==================================== *)

\* the requests that are between their lookup and their response
InFlight == { r \in Reqs : req[r].pc \in {"load", "save", "del"} }

\* the requests answered with `result`
Answered(result) == { r \in Reqs : req[r].pc = "done" /\ req[r].result = result }

\* how often pull_and_restart was started for token t
Starts(t) == Cardinality({ k \in DOMAIN executions : executions[k].token = t })

\* how many requests for token t were answered with the success page
Acks(t) == Cardinality({ r \in Answered("success") : req[r].token = t })

\* request r takes its last step, from `pc`
Ends(r, pc) == req[r].pc = pc /\ req'[r].pc = "done"

\* request r arrives
Arrives(r) == req[r].pc = "idle" /\ req'[r].pc /= "idle"

(* C1: of the approval POSTs with a valid code that run concurrently for one
   token, none but one is answered with success, and pull_and_restart is
   started once for the token: never more than once and, when a request got
   as far as the removal and the sweep did not take the entry, exactly once. *)
C1_ExactlyOneApproval ==
  \A t \in Tokens :
    /\ Acks(t) <= 1
    /\ Starts(t) <= 1
    /\ (t \notin swept /\ \E r \in Answered("success") \cup Answered("error500") :
                             req[r].token = t)
         => Acks(t) = 1 /\ Starts(t) = 1

\* two requests passed the lookup of the same token before either removed it
C1_Witness ==
  \E r1 \in Answered("success"), r2 \in Answered("error500") :
    req[r1].token = req[r2].token /\ req[r1].token \notin swept

(* C2: every start of pull_and_restart is the last step of a POST that carried
   the valid code and had found its token in the registry, and the thread gets
   the image, container and app_dir of the entry inserted under that token;
   no other step (poller, sweep, GET, rejected POST) starts one. *)
C2_StartOnlyByApproval ==
  [][executions' /= executions =>
       \E r \in Reqs :
         /\ Ends(r, "del")
         /\ req[r].method = "POST"
         /\ req[r].code = GoodCode
         /\ req[r].token \in DOMAIN created
         /\ req[r].update.token = req[r].token
         /\ LET o == created[req[r].token] IN
              executions' = Append(executions,
                [image |-> o.image, container |-> o.container,
                 app_dir |-> IF o.app_dir = "" THEN None ELSE o.app_dir,
                 token |-> req[r].token])]_vars

\* an executor was started although another POST had been rejected
C2_Witness == Len(executions) > 0 /\ Answered("invalid") /= {}

(* C3: the registry never holds two entries with the same image and the same
   new digest, and no more than one notification was sent for the live entry
   of such a pair, however many poll cycles have seen the digest. *)
C3_OneLivePerVersion ==
  /\ \A t1, t2 \in DOMAIN pending_updates :
       (/\ pending_updates[t1].image = pending_updates[t2].image
        /\ pending_updates[t1].new_digest = pending_updates[t2].new_digest)
         => t1 = t2
  /\ \A i \in ImageNames, d \in {DigestSeq[n] : n \in 1..MaxDigest} :
       Cardinality({ k \in DOMAIN notified :
                       /\ notified[k] \in DOMAIN pending_updates
                       /\ pending_updates[notified[k]].image = i
                       /\ pending_updates[notified[k]].new_digest = d }) <= 1

\* a later poll cycle sees the digest of an entry that is still live, and
\* that has been notified
C3_Witness ==
  /\ poller.pc = "check"
  /\ \E t \in DOMAIN pending_updates :
       /\ pending_updates[t].image = Images[poller.idx].image
       /\ pending_updates[t].new_digest = poller.current_digest
       /\ \E k \in DOMAIN notified : notified[k] = t

(* C4: the state file is written only when an entry is consumed: once no
   request is under way, every digest it holds is the new digest of an entry
   for which pull_and_restart was started. *)
C4_StoreOnlyOnConsume ==
  InFlight = {} =>
    \A i \in ImageNames :
      state_file[i] /= None =>
        \E k \in DOMAIN executions :
          /\ executions[k].image = i
          /\ created[executions[k].token].new_digest = state_file[i]

(* C5: a POST that validated its code and finds the entry gone at the removal
   ends with the not-found page, and starts no executor. *)
C5_GoneAtRemovalIsNotFound ==
  [][\A r \in Reqs :
       (Ends(r, "del") /\ req[r].token \notin DOMAIN pending_updates)
         => req'[r].result = "notfound" /\ executions' = executions]_vars

(* C6: a POST with a wrong code is answered "invalid" and changes neither the
   registry nor the state file nor starts an executor; and whatever was
   rejected before, a POST with the valid code whose entry is in the registry
   at the removal is answered with success. *)
C6_WrongCodeChangesNothing ==
  [][\A r \in Reqs :
       /\ (Arrives(r) /\ req'[r].code = BadCode)
            => /\ req'[r].pc = "done" /\ req'[r].result = "invalid"
               /\ pending_updates' = pending_updates
               /\ state_file' = state_file
               /\ executions' = executions
       /\ (Ends(r, "del") /\ req[r].code = GoodCode
             /\ req[r].token \in DOMAIN pending_updates)
            => req'[r].result = "success"]_vars

\* a wrong code was rejected for a token, and a later POST for it succeeded
C6_Witness ==
  \E r1 \in Answered("invalid"), r2 \in Answered("success") :
    r1 < r2 /\ req[r1].token = req[r2].token

(* C7: a sweep leaves no entry older than the timeout; an entry it removed
   never returns, no executor is ever started for it, a request that arrives
   for its token afterwards gets the not-found page, and when no request with
   a valid code ever reached it, the state file holds its digest only if
   a request wrote it for another entry of the same version. *)
C7_ExpiredIsGone ==
  [][/\ (poller.pc = "cleanup" /\ poller'.pc = "sleep")
          => \A t \in DOMAIN pending_updates' :
               now - pending_updates'[t].detected_at <= APPROVAL_TIMEOUT
     /\ \A t \in swept' :
          /\ t \notin DOMAIN pending_updates'
          /\ Starts(t)' = 0
          /\ (\A r \in Reqs : req'[r].token = t =>
                req'[r].pc = "done" /\ req'[r].result \in {"notfound", "page", "invalid"})
               => (state_file'[created'[t].image] = created'[t].new_digest
                     => \E r \in Reqs :
                          /\ req'[r].pc = "del"
                               \/ req'[r].result \in {"success", "error500"}
                          /\ req'[r].token \in DOMAIN created' \ {t}
                          /\ created'[req'[r].token] = created'[t])
     /\ \A r \in Reqs :
          (Arrives(r) /\ req'[r].token \in swept)
            => req'[r].pc = "done" /\ req'[r].result = "notfound"]_vars

\* an entry nobody approved was swept, and a request for its token came later
C7_Witness ==
  \E t \in swept :
    /\ \E r \in Answered("notfound") : req[r].token = t
    /\ \A r \in Reqs : req[r].token = t => r \in Answered("notfound")

(* C8: no POST that arrived when its entry was older than the timeout is
   answered with success. *)
C8_NoLateApproval ==
  \A r \in Answered("success") : ~req[r].late

(* C9: once pull_and_restart was started for an entry of (image, digest), no
   entry is inserted for the same image and digest while the registry serves
   that digest. *)
C9_NeverReoffered ==
  [][\A t \in DOMAIN pending_updates' \ DOMAIN pending_updates :
       DigestSeq[remote[pending_updates'[t].image]] = pending_updates'[t].new_digest
         => ~ \E k \in DOMAIN executions :
                /\ created[executions[k].token].image = pending_updates'[t].image
                /\ created[executions[k].token].new_digest = pending_updates'[t].new_digest]_vars

(* C10: when a request is answered with success, the state file maps the
   image of its entry to the new digest of the entry, and the token is no
   longer in the registry. *)
C10_StoreHoldsApprovedDigest ==
  [][\A r \in Reqs :
       (Ends(r, "del") /\ req'[r].result = "success")
         => /\ state_file'[req[r].update.image] = req[r].update.new_digest
            /\ req[r].token \notin DOMAIN pending_updates']_vars

(* C11: a poll cycle inserts an entry only for a fetched digest that differs
   from the digest that the state it loaded holds for the image; the insertion
   adds exactly one entry, whose new digest is the fetched one and whose old
   digest is the loaded one ("unknown" when the state holds none); no other
   step adds an entry; and send_notification is called once for the entry,
   right after its insertion, and for nothing else. *)
C11_OneEntryPerChange ==
  [][/\ (poller.pc = "insert" /\ poller'.pc = "notify")
          => LET known == DigestsGet(poller.state, Images[poller.idx].image)
                 new == DOMAIN pending_updates' \ DOMAIN pending_updates
             IN /\ Cardinality(new) = 1
                /\ known /= poller.current_digest
                /\ \A t \in new :
                     /\ pending_updates'[t].image = Images[poller.idx].image
                     /\ pending_updates'[t].new_digest = poller.current_digest
                     /\ pending_updates'[t].old_digest
                          = (IF known = None THEN "unknown" ELSE known)
                     /\ poller'.update = pending_updates'[t]
     /\ (poller.pc /= "insert" \/ poller'.pc /= "notify")
          => DOMAIN pending_updates' \subseteq DOMAIN pending_updates
     /\ notified' /= notified
          => /\ poller.pc = "notify"
             /\ notified' = Append(notified, poller.update.token)
             /\ \A k \in DOMAIN notified : notified[k] /= poller.update.token]_vars

\* the digest of an image went from aaa, approved, to bbb: the entry for bbb
\* names aaa as the old digest, and was notified
C11_Witness ==
  \E t \in DOMAIN pending_updates :
    /\ pending_updates[t].old_digest = DigestSeq[1]
    /\ pending_updates[t].new_digest = DigestSeq[2]
    /\ \E k \in DOMAIN notified : notified[k] = t

(* C12: when send_notification returned False for an entry, the entry stays
   in the registry until the sweep removes it or a POST with the valid code
   consumes it, which starts the executor for it. *)
C12_FailedNotifyKeepsEntry ==
  (~poller.delivered /\ Len(notified) > 0)
    => LET t == notified[Len(notified)]
       IN t \in DOMAIN pending_updates \/ t \in swept \/ Starts(t) = 1

\* the notification of the latest entry failed, and the entry was approved
C12_Witness ==
  /\ ~poller.delivered
  /\ Len(notified) > 0
  /\ Acks(notified[Len(notified)]) = 1

(* C13: when get_remote_digest returns None for an image, the cycle goes on
   with the next entry of the list, with the state it loaded, and nothing is
   inserted, removed or notified; after the last entry the cycle goes on to
   cleanup_expired, and the next cycle starts again at the first entry. *)
C13_FailedFetchSkipsOneImage ==
  [][/\ (/\ poller.pc = "fetch" /\ poller.idx <= Len(Images)
         /\ poller' /= poller /\ poller'.current_digest = None)
          => /\ poller'.pc = "fetch"
             /\ poller'.idx = poller.idx + 1
             /\ poller'.state = poller.state
             /\ pending_updates' = pending_updates
             /\ created' = created
             /\ notified' = notified
     /\ (poller.pc = "fetch" /\ poller.idx > Len(Images) /\ poller' /= poller)
          => poller'.pc = "cleanup"
     /\ (poller.pc = "load" /\ poller'.pc = "fetch") => poller'.idx = 1]_vars

\* the fetch for the first image failed: nothing was inserted for the image,
\* and the cycle stands at the second image
C13_Witness ==
  /\ poller.pc = "fetch"
  /\ poller.idx = 2
  /\ poller.current_digest = None
  /\ \A t \in DOMAIN created : created[t].image /= Images[1].image

(* C17: without a TOTP secret main returns before it starts the poller
   thread and the HTTP server: the poller and the request threads never take
   a step, so nothing is ever inserted, approved or executed. *)
C17_NoSecretNoStart ==
  TOTP_SECRET = ""
    => /\ main /= "running"
       /\ poller = IdlePoller
       /\ \A r \in Reqs : req[r] = IdleReq
       /\ pending_updates = << >>
       /\ created = << >>
       /\ executions = << >>
       /\ notified = << >>

\* main has returned for want of a secret
C17_Witness == TOTP_SECRET = "" /\ main = "refused"

\* the model has no token left for the entry the poller is about to insert
TokensExhausted == poller.pc = "insert" /\ nextToken > MaxTokens

(* C14: the poller never stops: every cycle, also one in which an exception
   is raised, ends in the sleep (unless the model runs out of tokens), and
   every sleep that ends within the clock's range is followed by the start of
   the next cycle. *)
C14_PollerNeverStops ==
  /\ (Running /\ poller.pc /= "sleep") ~> (poller.pc = "sleep" \/ TokensExhausted)
  /\ (poller.pc = "sleep" /\ poller.wake <= MaxTime) ~> (poller.pc = "load")

\* a cycle starts after a cycle that an exception ended
C14_Witness == poller.pc = "load" /\ poller.caught

\* the poller inserts an entry
Creates == poller.pc = "insert" /\ poller'.pc = "notify"

(* C15: every entry is filed under its own token; as long as nothing was
   consumed or swept the registry holds one entry per create; and the token
   of a create is neither the key of a live entry nor of an entry created
   earlier (consumed or expired since), so the create adds one entry and
   leaves the others as they are. *)
C15_FreshTokenPerCreate ==
  /\ [](/\ \A t \in DOMAIN pending_updates : pending_updates[t].token = t
        /\ (swept = {} /\ executions = << >>)
             => Cardinality(DOMAIN pending_updates) = nextToken - 1)
  /\ [][Creates =>
          LET t == poller'.update.token
          IN /\ t \notin DOMAIN pending_updates
             /\ t \notin DOMAIN created
             /\ DOMAIN pending_updates' = DOMAIN pending_updates \cup {t}
             /\ \A u \in DOMAIN pending_updates :
                  pending_updates'[u] = pending_updates[u]]_vars

\* two creates and neither a consumption nor a sweep: two live entries
C15_Witness ==
  /\ Cardinality(DOMAIN pending_updates) = 2
  /\ swept = {}
  /\ executions = << >>

(* C16: a request, GET or POST and whatever its code, for a token that is
   not in the registry when it arrives is answered with the not-found page
   and nothing else, whether the token was never created, was swept or was
   consumed; the registry, the state file and the executions stay as they
   were. *)
C16_AbsentTokenIsNotFound ==
  [][\A r \in Reqs :
       (Arrives(r) /\ req'[r].token \notin DOMAIN pending_updates)
         => /\ req'[r] = [IdleReq EXCEPT !.pc = "done", !.token = req'[r].token,
                                         !.result = "notfound"]
            /\ UNCHANGED << pending_updates, state_file, executions >>]_vars

\* the second request asked for the token the first one had consumed
C16_Witness ==
  /\ 1 \in Answered("success")
  /\ 2 \in Answered("notfound")
  /\ req[1].token = req[2].token

(* C18: a request that writes image -> new_digest to the state file has
   removed its entry from the registry before: at the write the token is no
   longer a key of pending_updates. *)
C18_StoreWrittenAfterRemoval ==
  [][\A r \in Reqs :
       (req[r].pc = "save" /\ req'[r].pc = "del")
         => req[r].token \notin DOMAIN pending_updates]_vars

(* C19: between the poller's check that no live entry exists for (image,
   digest) and its insertion of the new entry, no request looks the registry
   up, no request removes an entry, and the registry does not change. *)
C19_CheckThenInsertAtomic ==
  [][(poller.pc = "insert" /\ poller'.pc = "insert" /\ nextToken <= MaxTokens)
       => /\ pending_updates' = pending_updates
          /\ \A r \in Reqs : ~Arrives(r) /\ ~Ends(r, "del")]_vars

\* cleanup_expired runs
Sweeps == poller.pc = "cleanup" /\ poller'.pc = "sleep"

(* C20: a sweep at time now keeps exactly the entries whose age is at most
   APPROVAL_TIMEOUT, an age equal to it included, each with the fields it
   had, removes the others, and changes neither the state file nor the
   executions. *)
C20_SweepRemovesExactlyOverdue ==
  [][Sweeps =>
       /\ DOMAIN pending_updates' =
            { t \in DOMAIN pending_updates :
                now - pending_updates[t].detected_at <= APPROVAL_TIMEOUT }
       /\ \A t \in DOMAIN pending_updates' : pending_updates'[t] = pending_updates[t]
       /\ UNCHANGED << state_file, executions >>]_vars

\* right after a sweep: an entry whose age equals the timeout is still there,
\* an older one is gone
C20_Witness ==
  /\ poller.pc = "sleep"
  /\ ~poller.caught
  /\ poller.wake = now + POLL_INTERVAL
  /\ swept /= {}
  /\ \E t \in DOMAIN pending_updates :
       now - pending_updates[t].detected_at = APPROVAL_TIMEOUT

(* C21: every entry eventually leaves the registry: with the poller thread
   scheduled fairly and the clock advancing, a token that is in the registry
   is later out of it (unless the model has run out of tokens and the
   poller cannot go on). *)
C21_EveryEntryLeaves ==
  \A t \in Tokens :
    (t \in DOMAIN pending_updates)
      ~> (t \notin DOMAIN pending_updates \/ TokensExhausted)

\* pull_and_restart was never started for an entry of the version that the
\* entry of token t offered
Unapproved(t) ==
  \A k \in DOMAIN executions : created[executions[k].token] /= created[t]

\* the poller is at the image of token t's entry, and no live entry offers
\* that entry's version
AtSweptVersion(t) ==
  /\ poller.idx <= Len(Images)
  /\ Images[poller.idx].image = created[t].image
  /\ ~already_pending(pending_updates, created[t].image, created[t].new_digest)

(* C22: when an entry was swept, its version was never approved and no live
   entry offers it, a later cycle that fetches the image and is served the
   same digest goes on to the duplicate check, from there to the insertion,
   and inserts an entry for the version under a token never used before; a
   request for the swept token gets the not-found page. *)
C22_SweptVersionReoffered ==
  [][/\ \A t \in swept :
          (Unapproved(t) /\ AtSweptVersion(t) /\ poller' /= poller)
            => /\ (poller.pc = "fetch" /\ poller'.current_digest = created[t].new_digest)
                    => poller'.pc = "check"
               /\ (poller.pc = "check" /\ poller.current_digest = created[t].new_digest)
                    => poller'.pc = "insert"
               /\ (Creates /\ poller.current_digest = created[t].new_digest)
                    => /\ poller'.update.token \notin DOMAIN created
                       /\ Offer(poller'.update) = created[t]
                       /\ poller'.update.token \in DOMAIN pending_updates'
     /\ \A r \in Reqs :
          (Arrives(r) /\ req'[r].token \in swept)
            => req'[r].pc = "done" /\ req'[r].result = "notfound"]_vars

====
